---- MODULE Spec2Model ----
(***************************************************************************)
(* Model of the smoke-alert edge function                                  *)
(* (FCM/supabase/functions/alert/index.ts): a webhook handler that turns   *)
(* an INSERT on smoke_logs into one FCM push notification.                 *)
(*                                                                         *)
(* Every `await` of the handler is a suspension point, so one invocation   *)
(* is a chain of atomic steps, one per resolved await:                     *)
(*   Receive -> ReqJsonDone -> LookupDone -> TokenDone -> FetchDone        *)
(*           -> ResJsonDone                                                *)
(* Text is modelled as sequences of one-character strings (timestamps) or  *)
(* of JSON tokens (HTTP bodies).                                           *)
(***************************************************************************)
EXTENDS Integers, Sequences, FiniteSets, TLC

(***************************************************************************)
(* Bounds of the model.                                                    *)
(***************************************************************************)
\* longest provider response body, in JSON tokens
MaxBodyLen == 5
\* number of concurrently executing invocations in SpecConc
NumInvocations == 2

(***************************************************************************)
(* Program constants.                                                      *)
(***************************************************************************)
\* res.status < 200 || 299 < res.status
StatusOkLow == 200
StatusOkHigh == 299
\* status: 200 of the "ignored" response
StatusIgnored == 200
\* new Response(body, { headers }) without a status: the default, 200
StatusDefault == 200
\* status: 404 of the "token not found" response
StatusNotFound == 404
\* timeZone: 'Asia/Manila' is UTC+8, no daylight saving
ManilaOffsetHours == 8

(***************************************************************************)
(* Characters and numbers.                                                 *)
(***************************************************************************)
DigitChars == <<"0", "1", "2", "3", "4", "5", "6", "7", "8", "9">>

Dig(k) == DigitChars[k + 1]

IsDigit(c) == \E k \in 0..9 : DigitChars[k + 1] = c

DigitVal(c) == CHOOSE k \in 0..9 : DigitChars[k + 1] = c

Pad2(n) == <<Dig((n \div 10) % 10), Dig(n % 10)>>

Pad4(n) == <<Dig((n \div 1000) % 10), Dig((n \div 100) % 10), Dig((n \div 10) % 10), Dig(n % 10)>>

Num2(s, p) == 10 * DigitVal(s[p]) + DigitVal(s[p + 1])

Num4(s, p) == 1000 * DigitVal(s[p]) + 100 * DigitVal(s[p + 1]) + 10 * DigitVal(s[p + 2]) + DigitVal(s[p + 3])

(***************************************************************************)
(* Timestamp normalization, lines 70-75.                                   *)
(***************************************************************************)
\* String.prototype.replace(' ', 'T'): a string pattern replaces the first
\* occurrence only.
ReplaceFirstSpace(s) ==
  IF \E p \in 1..Len(s) : s[p] = " "
    THEN LET p == CHOOSE q \in 1..Len(s) : s[q] = " " /\ \A r \in 1..(q - 1) : s[r] # " "
         IN  [q \in 1..Len(s) |-> IF q = p THEN "T" ELSE s[q]]
    ELSE s

\* .replace(/\+00$/, 'Z')
ReplaceTrailingPlus00(s) ==
  IF Len(s) >= 3 /\ SubSeq(s, Len(s) - 2, Len(s)) = <<"+", "0", "0">>
    THEN SubSeq(s, 1, Len(s) - 3) \o <<"Z">>
    ELSE s

EndsWithZ(s) == Len(s) >= 1 /\ s[Len(s)] = "Z"

\* if (!detectedAtString.endsWith('Z')) detectedAtString += 'Z'
AppendZ_Always(s) == s \o <<"Z">>

AppendZIfMissing(s) == IF EndsWithZ(s) THEN s ELSE s \o <<"Z">>

NormalizeTimestamp(s) == AppendZIfMissing(ReplaceTrailingPlus00(ReplaceFirstSpace(s)))

(***************************************************************************)
(* new Date(detectedAtString), line 76: the ECMAScript date-time string    *)
(* format YYYY-MM-DDTHH:mm:ssZ read as an instant, here in seconds since   *)
(* the epoch.  Any other text gives an Invalid Date.                       *)
(***************************************************************************)
IsLeap(y) == (y % 4 = 0 /\ y % 100 # 0) \/ y % 400 = 0

DaysInMonth(y, m) ==
  IF m = 2 THEN (IF IsLeap(y) THEN 29 ELSE 28)
  ELSE IF m \in {4, 6, 9, 11} THEN 30 ELSE 31

\* days since 1970-01-01 of a civil date (proleptic Gregorian)
DaysFromCivil(y, m, d) ==
  LET yy  == IF m <= 2 THEN y - 1 ELSE y
      era == yy \div 400
      yoe == yy - era * 400
      mp  == IF m > 2 THEN m - 3 ELSE m + 9
      doy == (153 * mp + 2) \div 5 + d - 1
      doe == yoe * 365 + yoe \div 4 - yoe \div 100 + doy
  IN  era * 146097 + doe - 719468

\* the civil date of a day number
CivilFromDays(z0) ==
  LET z   == z0 + 719468
      era == z \div 146097
      doe == z - era * 146097
      yoe == (doe - doe \div 1460 + doe \div 36524 - doe \div 146096) \div 365
      doy == doe - (365 * yoe + yoe \div 4 - yoe \div 100)
      mp  == (5 * doy + 2) \div 153
      d   == doy - (153 * mp + 2) \div 5 + 1
      m   == IF mp < 10 THEN mp + 3 ELSE mp - 9
      y   == yoe + era * 400 + (IF m <= 2 THEN 1 ELSE 0)
  IN  [year |-> y, month |-> m, day |-> d]

InvalidDate == [valid |-> FALSE, t |-> 0]

IsIsoUtcShape(s) ==
  /\ Len(s) = 20
  /\ \A p \in {1, 2, 3, 4, 6, 7, 9, 10, 12, 13, 15, 16, 18, 19} : IsDigit(s[p])
  /\ s[5] = "-" /\ s[8] = "-" /\ s[11] = "T"
  /\ s[14] = ":" /\ s[17] = ":" /\ s[20] = "Z"

ParseDate(s) ==
  IF ~IsIsoUtcShape(s) THEN InvalidDate
  ELSE LET y  == Num4(s, 1)
           m  == Num2(s, 6)
           d  == Num2(s, 9)
           h  == Num2(s, 12)
           mi == Num2(s, 15)
           se == Num2(s, 18)
       IN  IF m \in 1..12 /\ d >= 1 /\ d <= DaysInMonth(y, m) /\ h <= 23 /\ mi <= 59 /\ se <= 59
             THEN [valid |-> TRUE,
                   t |-> DaysFromCivil(y, m, d) * 86400 + h * 3600 + mi * 60 + se]
             ELSE InvalidDate

(***************************************************************************)
(* toLocaleString('en-US', options), lines 78-87.  The options name the    *)
(* components (2-digit hour and minute on a 12-hour clock, short month,    *)
(* 2-digit day, numeric year) and the time zone; the en-US locale pattern  *)
(* places them: date, then ", ", then time.                                *)
(***************************************************************************)
MonthAbbr ==
  << <<"J","a","n">>, <<"F","e","b">>, <<"M","a","r">>, <<"A","p","r">>,
     <<"M","a","y">>, <<"J","u","n">>, <<"J","u","l">>, <<"A","u","g">>,
     <<"S","e","p">>, <<"O","c","t">>, <<"N","o","v">>, <<"D","e","c">> >>

InvalidDateText == <<"I","n","v","a","l","i","d"," ","D","a","t","e">>

\* the instant's wall-clock fields in the given zone
ZonedFields(t, offsetHours) ==
  LET local == t + offsetHours * 3600
      days  == local \div 86400
      sod   == local % 86400
      c     == CivilFromDays(days)
  IN  [year |-> c.year, month |-> c.month, day |-> c.day,
       hour |-> sod \div 3600, minute |-> (sod % 3600) \div 60]

Hour12(h) == IF h % 12 = 0 THEN 12 ELSE h % 12

DayPeriod(h) == IF h < 12 THEN <<"A", "M">> ELSE <<"P", "M">>

DatePart(f) == MonthAbbr[f.month] \o <<" ">> \o Pad2(f.day) \o <<",", " ">> \o Pad4(f.year)

TimePart(f) == Pad2(Hour12(f.hour)) \o <<":">> \o Pad2(f.minute) \o <<" ">> \o DayPeriod(f.hour)

\* en-US: "Mar 05, 2024, 04:15 PM"
EnUsDateTime(f) == DatePart(f) \o <<",", " ">> \o TimePart(f)

ToLocaleStringManila(date) ==
  IF date.valid THEN EnUsDateTime(ZonedFields(date.t, ManilaOffsetHours))
  ELSE InvalidDateText

(***************************************************************************)
(* JSON text of the provider's response, as a sequence of tokens:          *)
(*   "{"  "}"  ":"   punctuation                                           *)
(*   "str"           a string literal (a key, or a value such as the       *)
(*                   message name FCM returns)                             *)
(*   " "             insignificant whitespace (space, newline)             *)
(* A parsed value is <<"str">>, <<"obj">> (no member) or <<"obj", v>>      *)
(* (one member whose value is v).                                          *)
(***************************************************************************)
JsonTokens == {"{", "}", ":", "str", " "}

RECURSIVE SkipWs(_, _)
SkipWs(s, p) == IF p <= Len(s) /\ s[p] = " " THEN SkipWs(s, p + 1) ELSE p

At(s, p) == IF p <= Len(s) THEN s[p] ELSE "eof"

ParseFail == [ok |-> FALSE, val |-> <<>>, next |-> 0]

RECURSIVE ParseValue(_, _)
ParseValue(s, p0) ==
  LET p == SkipWs(s, p0) IN
  IF At(s, p) = "str" THEN [ok |-> TRUE, val |-> <<"str">>, next |-> p + 1]
  ELSE IF At(s, p) = "{" THEN
    LET q == SkipWs(s, p + 1) IN
    IF At(s, q) = "}" THEN [ok |-> TRUE, val |-> <<"obj">>, next |-> q + 1]
    ELSE IF At(s, q) = "str" /\ At(s, SkipWs(s, q + 1)) = ":" THEN
      LET v == ParseValue(s, SkipWs(s, q + 1) + 1)
          e == SkipWs(s, v.next)
      IN  IF v.ok /\ At(s, e) = "}"
            THEN [ok |-> TRUE, val |-> <<"obj", v.val>>, next |-> e + 1]
            ELSE ParseFail
    ELSE ParseFail
  ELSE ParseFail

\* Response.json(): the whole text must be one JSON value, else a SyntaxError
JsonParse(s) ==
  LET v == ParseValue(s, 1) IN
  IF v.ok /\ SkipWs(s, v.next) > Len(s) THEN [ok |-> TRUE, val |-> v.val]
  ELSE [ok |-> FALSE, val |-> <<>>]

\* JSON.stringify(value): the compact text, no whitespace
RECURSIVE JsonStringify_Spaced(_)
JsonStringify_Spaced(v) ==
  IF v = <<"str">> THEN <<"str">>
  ELSE IF v = <<"obj">> THEN <<"{", "}">>
  ELSE <<"{", "str", ":", " ">> \o JsonStringify_Spaced(v[2]) \o <<"}">>

RECURSIVE JsonStringify(_)
JsonStringify(v) ==
  IF v = <<"str">> THEN <<"str">>
  ELSE IF v = <<"obj">> THEN <<"{", "}">>
  ELSE <<"{", "str", ":">> \o JsonStringify(v[2]) \o <<"}">>

\* JSON.stringify({ message: 'Not a smoke_logs insert event.' })
IgnoredBody == <<"{", "message", ":", "Not a smoke_logs insert event.", "}">>

\* JSON.stringify({ error: 'Device FCM token not found.' })
NotFoundBody == <<"{", "error", ":", "Device FCM token not found.", "}">>

\* res.status < 200 || 299 < res.status
IsFailureStatus_Never(status) == FALSE

IsFailureStatus_OffByOne(status) == status < StatusOkLow \/ StatusOkHigh + 1 < status

IsFailureStatus(status) == status < StatusOkLow \/ StatusOkHigh < status

(***************************************************************************)
(* Inbound requests.  The request body is either not JSON at all, or JSON  *)
(* null, or a JSON primitive, or an object with the webhook's fields;      *)
(* `record` and `record.detected_at` may be missing.                       *)
(***************************************************************************)
Req(shape, type, table, hasRecord, dev, hasTs, ts) ==
  [shape |-> shape, type |-> type, table |-> table, hasRecord |-> hasRecord,
   device_id |-> dev, hasDetectedAt |-> hasTs, detected_at |-> ts]

NotJsonReq == Req("notjson", "", "", FALSE, "", FALSE, <<>>)

NullReq == Req("null", "", "", FALSE, "", FALSE, <<>>)

PrimitiveReq == Req("primitive", "", "", FALSE, "", FALSE, <<>>)

EventReq(type, table) == Req("object", type, table, FALSE, "", FALSE, <<>>)

InsertReq(dev, ts) == Req("object", "INSERT", "smoke_logs", TRUE, dev, TRUE, ts)

InsertNoTimeReq(dev) == Req("object", "INSERT", "smoke_logs", TRUE, dev, FALSE, <<>>)

\* the three textual forms of a detection time
FmtDate(dt) == Pad4(dt.year) \o <<"-">> \o Pad2(dt.month) \o <<"-">> \o Pad2(dt.day)

FmtClock(dt) == Pad2(dt.hour) \o <<":">> \o Pad2(dt.minute) \o <<":">> \o Pad2(dt.second)

FmtPostgresUtc(dt) == FmtDate(dt) \o <<" ">> \o FmtClock(dt) \o <<"+", "0", "0">>

FmtPostgresNoZone(dt) == FmtDate(dt) \o <<" ">> \o FmtClock(dt)

FmtIsoUtc(dt) == FmtDate(dt) \o <<"T">> \o FmtClock(dt) \o <<"Z">>

DateTime(y, m, d, h, mi, se) ==
  [year |-> y, month |-> m, day |-> d, hour |-> h, minute |-> mi, second |-> se]

\* 2024-03-05 08:15:00
ExampleTime == DateTime(2024, 3, 5, 8, 15, 0)

(***************************************************************************)
(* The device table (external, read-only).  An optional column is a        *)
(* sequence of zero or one strings: <<>> is SQL NULL.                      *)
(***************************************************************************)
DeviceTable ==
  [d1 |-> [fcm_token |-> <<"fcm-d1">>, area |-> <<"Kitchen">>],
   d2 |-> [fcm_token |-> <<"fcm-d2">>, area |-> <<>>],
   d3 |-> [fcm_token |-> <<"">>,       area |-> <<"Lobby">>],
   d4 |-> [fcm_token |-> <<>>,         area |-> <<"Garage">>]]

\* supabase...single(): the one matching row, or data: null (no row, or a
\* failed query, which supabase-js reports in `error` and does not throw)
LookupResults(id) ==
  {<<>>} \cup (IF id \in DOMAIN DeviceTable THEN {<<DeviceTable[id]>>} ELSE {})

\* JavaScript truthiness of an optional string
Truthy(opt) == Len(opt) = 1 /\ opt[1] # ""

\* payload.type !== 'INSERT' || payload.table !== 'smoke_logs'
IsIgnored_And(r) == r.type # "INSERT" /\ r.table # "smoke_logs"

IsIgnored(r) == r.type # "INSERT" \/ r.table # "smoke_logs"

\* !device || !device.fcm_token
TokenMissing_DeviceOnly(data) == data = <<>>

TokenMissing(data) == data = <<>> \/ ~Truthy(data[1].fcm_token)

\* `A SMOKE HAS BEEN DETECTED\nAT: ${device.area || 'Unknown'}\nON: ${formattedTime}`
NotifBody(row, formattedTime) ==
  [headline |-> "A SMOKE HAS BEEN DETECTED",
   at |-> IF Truthy(row.area) THEN row.area[1] ELSE "Unknown",
   on |-> formattedTime]

NoBody == [headline |-> "", at |-> "", on |-> <<>>]

(***************************************************************************)
(* State.                                                                  *)
(***************************************************************************)
Invocations == 1..NumInvocations

VARIABLES
  pc,                \* where each invocation is suspended
  request,           \* the inbound request body of each invocation
  device,            \* const { data: device }
  fcmToken,          \* const fcmToken (an optional string, <<>> before the lookup)
  accessToken,       \* const accessToken (0: not assigned)
  detectedAtString,  \* let detectedAtString
  notifBody,         \* const notifBody
  res,               \* the provider's response to fetch
  outcome,           \* what the invocation ended in
  trace,             \* the steps each invocation has taken, in order
  issued,            \* the auth server: token k was issued to issued[k]
  fcmInbox           \* the provider: the send calls it has received

vars == <<pc, request, device, fcmToken, accessToken, detectedAtString,
          notifBody, res, outcome, trace, issued, fcmInbox>>

NoRes == [status |-> 0, body |-> <<>>]

NoOutcome == [kind |-> "none", status |-> 0, body |-> <<>>, error |-> "", data |-> <<>>]

ResponseOf(status, body) ==
  [kind |-> "response", status |-> status, body |-> body, error |-> "", data |-> <<>>]

ThrownOf(error, data) ==
  [kind |-> "thrown", status |-> 0, body |-> <<>>, error |-> error, data |-> data]

Init ==
  /\ pc = [i \in Invocations |-> "idle"]
  /\ request = [i \in Invocations |-> NotJsonReq]
  /\ device = [i \in Invocations |-> <<>>]
  /\ fcmToken = [i \in Invocations |-> <<>>]
  /\ accessToken = [i \in Invocations |-> 0]
  /\ detectedAtString = [i \in Invocations |-> <<>>]
  /\ notifBody = [i \in Invocations |-> NoBody]
  /\ res = [i \in Invocations |-> NoRes]
  /\ outcome = [i \in Invocations |-> NoOutcome]
  /\ trace = [i \in Invocations |-> <<>>]
  /\ issued = <<>>
  /\ fcmInbox = {}

(***************************************************************************)
(* The handler, lines 37-119, one action per resolved await.               *)
(***************************************************************************)
\* the invocation ends: a returned Response or an uncaught throw
End(i, out, steps) ==
  /\ pc' = [pc EXCEPT ![i] = "done"]
  /\ outcome' = [outcome EXCEPT ![i] = out]
  /\ trace' = [trace EXCEPT ![i] = trace[i] \o steps]

\* Deno.serve calls the handler with a request; it runs to `await req.json()`
Receive(i, reqs) ==
  /\ pc[i] = "idle"
  /\ \E r \in reqs : request' = [request EXCEPT ![i] = r]
  /\ pc' = [pc EXCEPT ![i] = "reqJson"]
  /\ trace' = [trace EXCEPT ![i] = <<"receive">>]
  /\ UNCHANGED <<device, fcmToken, accessToken, detectedAtString, notifBody,
                 res, outcome, issued, fcmInbox>>

\* req.json() settles; the event filter (41-46); the device query is sent (49-53)
ReqJsonDone(i) ==
  LET r == request[i] IN
  /\ pc[i] = "reqJson"
  /\ IF r.shape = "notjson"
       THEN End(i, ThrownOf("SyntaxError", <<>>), <<"throw">>)
     ELSE IF r.shape = "null"
       THEN End(i, ThrownOf("TypeError", <<>>), <<"validate", "throw">>)
     ELSE IF IsIgnored(r)
       THEN End(i, ResponseOf(StatusIgnored, IgnoredBody), <<"validate", "return">>)
     ELSE IF ~r.hasRecord
       THEN End(i, ThrownOf("TypeError", <<>>), <<"validate", "throw">>)
     ELSE /\ pc' = [pc EXCEPT ![i] = "lookup"]
          /\ trace' = [trace EXCEPT ![i] = trace[i] \o <<"validate", "lookup">>]
          /\ UNCHANGED outcome
  /\ UNCHANGED <<request, device, fcmToken, accessToken, detectedAtString,
                 notifBody, res, issued, fcmInbox>>

\* the device query settles; the token check (55-60); getAccessToken is called (64)
LookupDone(i) ==
  /\ pc[i] = "lookup"
  /\ \E data \in LookupResults(request[i].device_id) :
       /\ device' = [device EXCEPT ![i] = data]
       /\ IF TokenMissing(data)
            THEN /\ End(i, ResponseOf(StatusNotFound, NotFoundBody), <<"return">>)
                 /\ UNCHANGED fcmToken
            ELSE /\ fcmToken' = [fcmToken EXCEPT ![i] = data[1].fcm_token]
                 /\ pc' = [pc EXCEPT ![i] = "token"]
                 /\ trace' = [trace EXCEPT ![i] = trace[i] \o <<"token">>]
                 /\ UNCHANGED outcome
  /\ UNCHANGED <<request, accessToken, detectedAtString, notifBody, res,
                 issued, fcmInbox>>

\* Authorization: `Bearer ${accessToken}`, line 97
Bearer_Cached(i, tok) == IF Len(issued) > 0 THEN 1 ELSE tok

Bearer(i, tok) == tok

\* jwtClient.authorize calls back with err: reject(err), the await throws
TokenRejected_Swallowed(i) ==
  /\ pc' = [pc EXCEPT ![i] = "fetch"]
  /\ trace' = [trace EXCEPT ![i] = trace[i] \o <<"build", "send">>]
  /\ fcmInbox' = fcmInbox \cup {[from |-> i, bearer |-> 0, token |-> fcmToken[i],
                                 title |-> "Smoke Alert!", body |-> NoBody]}
  /\ UNCHANGED <<outcome, accessToken, detectedAtString, notifBody, issued>>

TokenRejected_Retried(i) ==
  /\ Len(trace[i]) < 6
  /\ trace' = [trace EXCEPT ![i] = trace[i] \o <<"token">>]
  /\ UNCHANGED <<pc, outcome, accessToken, detectedAtString, notifBody, issued, fcmInbox>>

TokenRejected(i) ==
  /\ End(i, ThrownOf("AuthError", <<>>), <<"throw">>)
  /\ UNCHANGED <<accessToken, detectedAtString, notifBody, issued, fcmInbox>>

\* resolve(tokens.access_token): the message is built (70-89) and fetch is called (91-109)
TokenResolved(i) ==
  LET r   == request[i]
      tok == Len(issued) + 1
  IN
  /\ issued' = Append(issued, i)
  /\ accessToken' = [accessToken EXCEPT ![i] = tok]
  /\ IF ~r.hasDetectedAt
       THEN \* payload.record.detected_at is undefined: .replace throws
            /\ End(i, ThrownOf("TypeError", <<>>), <<"build", "throw">>)
            /\ UNCHANGED <<detectedAtString, notifBody, fcmInbox>>
       ELSE LET norm == NormalizeTimestamp(r.detected_at)
                body == NotifBody(device[i][1], ToLocaleStringManila(ParseDate(norm)))
            IN  /\ detectedAtString' = [detectedAtString EXCEPT ![i] = norm]
                /\ notifBody' = [notifBody EXCEPT ![i] = body]
                /\ fcmInbox' = fcmInbox \cup
                     {[from |-> i, bearer |-> Bearer(i, tok), token |-> fcmToken[i],
                       title |-> "Smoke Alert!", body |-> body]}
                /\ pc' = [pc EXCEPT ![i] = "fetch"]
                /\ trace' = [trace EXCEPT ![i] = trace[i] \o <<"build", "send">>]
                /\ UNCHANGED outcome

\* getAccessToken settles (121-142)
TokenDone(i) ==
  /\ pc[i] = "token"
  /\ (TokenRejected(i) \/ TokenResolved(i))
  /\ UNCHANGED <<request, device, fcmToken, res>>

\* fetch settles: the provider's status line and body, or a network failure;
\* res.json() is called (111)
FetchDone(i, statuses, bodies) ==
  /\ pc[i] = "fetch"
  /\ \/ /\ End(i, ThrownOf("NetworkError", <<>>), <<"throw">>)
        /\ UNCHANGED res
     \/ /\ \E st \in statuses, b \in bodies :
             res' = [res EXCEPT ![i] = [status |-> st, body |-> b]]
        /\ pc' = [pc EXCEPT ![i] = "resJson"]
        /\ UNCHANGED <<outcome, trace>>
  /\ UNCHANGED <<request, device, fcmToken, accessToken, detectedAtString,
                 notifBody, issued, fcmInbox>>

\* res.json() settles; the status check (112-114); the response (116-118)
ResJsonDone(i) ==
  LET parsed == JsonParse(res[i].body) IN
  /\ pc[i] = "resJson"
  /\ IF ~parsed.ok
       THEN End(i, ThrownOf("SyntaxError", <<>>), <<"throw">>)
     ELSE IF IsFailureStatus(res[i].status)
       THEN End(i, ThrownOf("ProviderError", parsed.val), <<"throw">>)
     ELSE End(i, ResponseOf(StatusDefault, JsonStringify(parsed.val)), <<"return">>)
  /\ UNCHANGED <<request, device, fcmToken, accessToken, detectedAtString,
                 notifBody, res, issued, fcmInbox>>

Step(i, reqs, statuses, bodies) ==
  \/ Receive(i, reqs)
  \/ ReqJsonDone(i)
  \/ LookupDone(i)
  \/ TokenDone(i)
  \/ FetchDone(i, statuses, bodies)
  \/ ResJsonDone(i)

(***************************************************************************)
(* Inputs.                                                                 *)
(***************************************************************************)
\* every kind of inbound request the handler tells apart
Requests ==
  {NotJsonReq, NullReq, PrimitiveReq,
   EventReq("UPDATE", "smoke_logs"), EventReq("INSERT", "device"),
   EventReq("DELETE", "device"), EventReq("INSERT", "smoke_logs"),
   InsertReq("d1", FmtPostgresUtc(ExampleTime)), InsertNoTimeReq("d1"),
   InsertReq("d2", FmtPostgresNoZone(ExampleTime)),
   InsertReq("d3", FmtPostgresUtc(ExampleTime)),
   InsertReq("d4", FmtPostgresUtc(ExampleTime)),
   InsertReq("d9", FmtPostgresUtc(ExampleTime))}

\* provider statuses on both sides of each edge of 200..299
Statuses == {200, 299, 300, 403}

\* every token text of at most MaxBodyLen tokens
Bodies == UNION {[1..n -> JsonTokens] : n \in 0..MaxBodyLen}

SampleRequests ==
  {EventReq("UPDATE", "smoke_logs"),
   InsertReq("d1", FmtPostgresUtc(ExampleTime)),
   InsertReq("d2", FmtPostgresNoZone(ExampleTime)),
   InsertReq("d9", FmtPostgresUtc(ExampleTime))}

SampleStatuses == {200, 403}

SampleBodies == {<<"{", "str", ":", "str", "}">>, <<"{", " ", "}">>, <<"}">>}

\* detection times around the day, month and year ends, where the shift to
\* UTC+8 carries, and leap days
TimeGrid ==
  {DateTime(y, m, d, h, mi, 0) :
     y \in {2023, 2024}, m \in 1..12, d \in {1, 28, 29, 30, 31},
     h \in {0, 8, 12, 15, 16, 23}, mi \in {0, 15, 59}}

ValidTimes == {dt \in TimeGrid : dt.day <= DaysInMonth(dt.year, dt.month)}

TimeRequests ==
  {InsertReq("d1", FmtPostgresUtc(dt)) : dt \in ValidTimes}
    \cup {InsertReq("d1", FmtPostgresNoZone(dt)) : dt \in ValidTimes}
    \cup {InsertReq("d1", FmtIsoUtc(dt)) : dt \in ValidTimes}

(***************************************************************************)
(* Specifications.                                                         *)
(***************************************************************************)
\* one invocation, every request kind, every provider body
Next == Step(1, Requests, Statuses, Bodies)

Spec == Init /\ [][Next]_vars

\* concurrent invocations: the steps of different invocations interleave
NextConc == \E i \in Invocations : Step(i, SampleRequests, SampleStatuses, SampleBodies)

SpecConc == Init /\ [][NextConc]_vars

\* one invocation over the grid of detection times in the three text forms
NextTime == Step(1, TimeRequests, SampleStatuses, SampleBodies)

SpecTime == Init /\ [][NextTime]_vars

(***************************************************************************)
(* Properties.                                                             *)
(***************************************************************************)
Has(i, step) == \E k \in 1..Len(trace[i]) : trace[i][k] = step

Count(i, step) == Cardinality({k \in 1..Len(trace[i]) : trace[i][k] = step})

SentBy(i) == {m \in fcmInbox : m.from = i}

IsEvent(r) == r.shape \in {"object", "primitive"}

IsSmokeInsert(r) == r.shape = "object" /\ r.type = "INSERT" /\ r.table = "smoke_logs"

StripWs(s) == SelectSeq(s, LAMBDA c : c # " ")

\* C1: an event that is not an INSERT, or not on smoke_logs, is answered
\* 200 with the fixed message, and the invocation makes no device lookup,
\* acquires no access token and makes no provider call.
C1_IgnoredEvent ==
  \A i \in Invocations :
    (pc[i] # "idle" /\ IsEvent(request[i]) /\ ~IsSmokeInsert(request[i])) =>
      /\ ~Has(i, "lookup") /\ ~Has(i, "token") /\ ~Has(i, "send")
      /\ accessToken[i] = 0 /\ SentBy(i) = {}
      /\ pc[i] \in {"reqJson", "done"}
      /\ pc[i] = "done" => outcome[i] = ResponseOf(200, IgnoredBody)

C1_Witness ==
  \E i \in Invocations :
    /\ pc[i] = "done" /\ request[i] = EventReq("INSERT", "device")
    /\ outcome[i].kind = "response" /\ outcome[i].status = 200

\* C2: a smoke_logs insert whose device id matches no device, or a device
\* whose push token is null or empty, is answered 404 with the fixed error
\* body; no access token is acquired and no provider call is made.
C2_MissingToken ==
  \A i \in Invocations :
    LET r == request[i] IN
    (pc[i] # "idle" /\ IsSmokeInsert(r) /\ r.hasRecord
       /\ (r.device_id \notin DOMAIN DeviceTable
             \/ DeviceTable[r.device_id].fcm_token \in {<<>>, <<"">>})) =>
      /\ ~Has(i, "token") /\ ~Has(i, "send")
      /\ accessToken[i] = 0 /\ SentBy(i) = {}
      /\ pc[i] \in {"reqJson", "lookup", "done"}
      /\ pc[i] = "done" => outcome[i] = ResponseOf(404, NotFoundBody)

C2_Witness ==
  \E i \in Invocations :
    /\ pc[i] = "done" /\ request[i].device_id = "d3" /\ device[i] # <<>>
    /\ outcome[i].status = 404

\* C3: when the provider answers the send with a status outside 200..299,
\* the invocation ends in a throw (carrying the provider's parsed JSON body
\* when the body is JSON), never in a response, and the send was made once.
C3_ProviderFailure ==
  \A i \in Invocations :
    (pc[i] = "done" /\ res[i] # NoRes
       /\ (res[i].status < 200 \/ res[i].status > 299)) =>
      /\ outcome[i].kind = "thrown"
      /\ JsonParse(res[i].body).ok =>
           /\ outcome[i].error = "ProviderError"
           /\ outcome[i].data = JsonParse(res[i].body).val
      /\ Count(i, "send") = 1
      /\ Cardinality(SentBy(i)) = 1

C3_Witness ==
  \E i \in Invocations :
    /\ pc[i] = "done" /\ res[i].status = 403
    /\ res[i].body = <<"{", "str", ":", "str", "}">>
    /\ outcome[i] = ThrownOf("ProviderError", <<"obj", <<"str">>>>)

Is2xx(status) == status >= 200 /\ status <= 299

C5_TokenBeforeSend ==
  /\ \A m \in fcmInbox :
       /\ m.bearer \in 1..Len(issued)
       /\ issued[m.bearer] = m.from
       /\ accessToken[m.from] = m.bearer
  /\ \A i \in Invocations :
       /\ Count(i, "token") <= 1
       /\ Has(i, "send") =>
            \E k \in 1..Len(trace[i]), l \in 1..Len(trace[i]) :
              k < l /\ trace[i][k] = "token" /\ trace[i][l] = "send"
       /\ (Has(i, "token") /\ accessToken[i] = 0) =>
            /\ pc[i] \in {"token", "done"}
            /\ ~Has(i, "send") /\ SentBy(i) = {}
            /\ pc[i] = "done" => outcome[i] = ThrownOf("AuthError", <<>>)

C5_Witness ==
  \E i \in Invocations :
    /\ pc[i] = "done" /\ outcome[i].error = "AuthError"
    /\ Count(i, "token") = 1 /\ SentBy(i) = {}

\* C8 as stated: every invocation ends ignored (200), rejected (404), or in
\* an attempted delivery that ends in the provider's payload or a propagated
\* failure; a throw happens only after the lookup gave a push token.
C8_ThreeOutcomes ==
  \A i \in Invocations :
    pc[i] = "done" =>
      \/ outcome[i] = ResponseOf(200, IgnoredBody)
      \/ outcome[i] = ResponseOf(404, NotFoundBody)
      \/ /\ Has(i, "lookup") /\ Truthy(fcmToken[i])
         /\ outcome[i].kind \in {"response", "thrown"}

Ignored(i) ==
  /\ outcome[i] = ResponseOf(200, IgnoredBody)
  /\ IsEvent(request[i]) /\ ~IsSmokeInsert(request[i])
  /\ ~Has(i, "lookup")

Rejected(i) ==
  /\ outcome[i] = ResponseOf(404, NotFoundBody)
  /\ Has(i, "lookup") /\ ~Truthy(fcmToken[i]) /\ ~Has(i, "token")

Delivery(i) ==
  /\ Has(i, "lookup") /\ Truthy(fcmToken[i]) /\ Has(i, "token")
  /\ \/ /\ outcome[i].kind = "response" /\ outcome[i].status = 200
        /\ Has(i, "send") /\ Is2xx(res[i].status)
     \/ /\ outcome[i].kind = "thrown"
        /\ outcome[i].error \in
             {"AuthError", "TypeError", "NetworkError", "SyntaxError", "ProviderError"}
        /\ outcome[i].error = "AuthError" <=> accessToken[i] = 0
        /\ outcome[i].error = "TypeError" <=>
             (accessToken[i] > 0 /\ ~request[i].hasDetectedAt)
        /\ outcome[i].error \in {"NetworkError", "SyntaxError", "ProviderError"} =>
             Has(i, "send")

Malformed(i) ==
  /\ outcome[i].kind = "thrown" /\ ~Has(i, "lookup")
  /\ \/ request[i].shape = "notjson" /\ outcome[i].error = "SyntaxError"
     \/ request[i].shape = "null" /\ outcome[i].error = "TypeError"
     \/ /\ IsSmokeInsert(request[i]) /\ ~request[i].hasRecord
        /\ outcome[i].error = "TypeError"

\* C8 amended: every invocation ends in exactly one of four outcomes:
\* ignored (200), rejected (404), the delivery path after a lookup that gave
\* a push token (the provider's payload with 200, or a propagated failure),
\* or a throw before any device lookup, which happens exactly for a request
\* body that is not JSON, is JSON null, or is a smoke_logs insert without a
\* record.
C8_FourOutcomes ==
  \A i \in Invocations :
    /\ pc[i] = "done" =>
         Cardinality({k \in 1..4 :
            \/ k = 1 /\ Ignored(i)
            \/ k = 2 /\ Rejected(i)
            \/ k = 3 /\ Delivery(i)
            \/ k = 4 /\ Malformed(i)}) = 1
    /\ (pc[i] \notin {"idle", "reqJson"}
          /\ (request[i].shape \in {"notjson", "null"}
                \/ (IsSmokeInsert(request[i]) /\ ~request[i].hasRecord))) =>
         (pc[i] = "done" /\ Malformed(i))

C8_Witness ==
  \E i \in Invocations :
    /\ pc[i] = "done" /\ request[i] = EventReq("INSERT", "smoke_logs")
    /\ outcome[i] = ThrownOf("TypeError", <<>>) /\ trace[i] = <<"receive", "validate", "throw">>

StepsOf(order) == {order[k] : k \in 1..Len(order)}

RankIn(order, step) == CHOOSE k \in 1..Len(order) : order[k] = step

\* the steps of a trace are among `order` and appear in its order, none twice
FollowsOrder(t, order) ==
  /\ \A k \in 1..Len(t) : t[k] \in StepsOf(order) \cup {"throw"}
  /\ \A k \in 1..Len(t), l \in 1..Len(t) :
       (k < l /\ t[l] # "throw") => RankIn(order, t[k]) < RankIn(order, t[l])
  /\ \A k \in 1..Len(t) : t[k] = "throw" => k = Len(t)

\* C9 as stated: the steps of an invocation occur in the order receive,
\* validate, look up, build message, acquire token, send, return.
C9_ClaimedOrder ==
  \A i \in Invocations :
    FollowsOrder(trace[i],
      <<"receive", "validate", "lookup", "build", "token", "send", "return">>)

\* C9 amended: the steps of an invocation occur in the order receive,
\* validate, look up, acquire token, build message, send, return, none
\* repeated; the message is built after the access token is acquired.
C9_CodeOrder ==
  \A i \in Invocations :
    FollowsOrder(trace[i],
      <<"receive", "validate", "lookup", "token", "build", "send", "return">>)

C9_Witness ==
  \E i \in Invocations :
    trace[i] = <<"receive", "validate", "lookup", "token", "build", "send", "return">>

\* C10: under any interleaving, each send carries the access token the auth
\* server issued to that same invocation (no two invocations send the same
\* one) and the push token of the device its own event names, and two
\* invocations given the same event and the same external responses end in
\* the same outcome.
C10_NoSharedState ==
  /\ \A m \in fcmInbox :
       /\ m.bearer \in 1..Len(issued)
       /\ issued[m.bearer] = m.from
       /\ request[m.from].device_id \in DOMAIN DeviceTable
       /\ m.token = DeviceTable[request[m.from].device_id].fcm_token
       /\ m.body = notifBody[m.from]
  /\ \A m1 \in fcmInbox, m2 \in fcmInbox :
       m1.from # m2.from => m1.bearer # m2.bearer
  /\ \A i \in Invocations, j \in Invocations :
       (/\ pc[i] = "done" /\ pc[j] = "done"
        /\ request[i] = request[j] /\ device[i] = device[j]
        /\ (accessToken[i] = 0) = (accessToken[j] = 0)
        /\ res[i] = res[j]
        /\ Has(i, "send") = Has(j, "send")) =>
         outcome[i] = outcome[j]

C10_Witness ==
  \E i \in Invocations, j \in Invocations :
    /\ i # j /\ pc[i] = "fetch" /\ pc[j] = "resJson"
    /\ request[i].device_id = "d1" /\ request[j].device_id = "d2"
    /\ accessToken[j] = 1 /\ accessToken[i] = 2
    /\ Cardinality(fcmInbox) = 2

\* the date-time fields written at the fixed positions of a timestamp text
FieldsOf(s) ==
  DateTime(Num4(s, 1), Num2(s, 6), Num2(s, 9), Num2(s, 12), Num2(s, 15), Num2(s, 18))

IsPostgresUtc(s) ==
  Len(s) = 22 /\ s[11] = " " /\ SubSeq(s, 20, 22) = <<"+", "0", "0">>

\* the same wall-clock fields eight hours later
PlusEightHours(dt) ==
  LET h    == dt.hour + 8
      roll == h >= 24
      last == dt.day = DaysInMonth(dt.year, dt.month)
  IN  [year   |-> IF roll /\ last /\ dt.month = 12 THEN dt.year + 1 ELSE dt.year,
       month  |-> IF roll /\ last THEN (IF dt.month = 12 THEN 1 ELSE dt.month + 1)
                  ELSE dt.month,
       day    |-> IF roll THEN (IF last THEN 1 ELSE dt.day + 1) ELSE dt.day,
       hour   |-> h % 24,
       minute |-> dt.minute]

\* hh:mm AM/PM, Mon DD, YYYY
ClaimedTimeLine(f) == TimePart(f) \o <<",", " ">> \o DatePart(f)

\* C6 as stated: a detected_at in the Postgres form with a trailing +00 is
\* normalized to the UTC instant with the same fields, and the body's time
\* line shows that instant in Asia/Manila as hh:mm AM/PM, Mon DD, YYYY
\* (04:15 PM, Mar 05, 2024 for 2024-03-05 08:15:00+00).
C6_ManilaTimeLine ==
  \A i \in Invocations :
    (Has(i, "build") /\ request[i].hasDetectedAt
       /\ IsPostgresUtc(request[i].detected_at)) =>
      LET dt == FieldsOf(request[i].detected_at) IN
      /\ detectedAtString[i] = FmtIsoUtc(dt)
      /\ notifBody[i].on = ClaimedTimeLine(PlusEightHours(dt))

\* the time line the code produces: Mon DD, YYYY, hh:mm AM/PM
C6_CodeTimeLine ==
  \A i \in Invocations :
    (Has(i, "build") /\ request[i].hasDetectedAt) =>
      LET f == PlusEightHours(FieldsOf(request[i].detected_at)) IN
      notifBody[i].on = DatePart(f) \o <<",", " ">> \o TimePart(f)

C6_Example ==
  \A i \in Invocations :
    (Has(i, "build") /\ request[i].detected_at = FmtPostgresUtc(ExampleTime)) =>
      notifBody[i].on =
        <<"M","a","r"," ","0","5",","," ","2","0","2","4",","," ",
          "0","4",":","1","5"," ","P","M">>

\* C7: the well-formed text YYYY-MM-DDTHH:MM:SSZ is left unchanged, the two
\* source forms (space-separated with +00, and with no zone) normalize to
\* that same text, and normalizing the result again changes nothing.
C7_NormalizeCanonical ==
  \A i \in Invocations :
    (Has(i, "build") /\ request[i].hasDetectedAt) =>
      LET in == request[i].detected_at
          dt == FieldsOf(in)
      IN  /\ in \in {FmtIsoUtc(dt), FmtPostgresUtc(dt), FmtPostgresNoZone(dt)}
          /\ detectedAtString[i] = FmtIsoUtc(dt)
          /\ NormalizeTimestamp(detectedAtString[i]) = detectedAtString[i]
          /\ in = FmtIsoUtc(dt) => detectedAtString[i] = in

C7_Witness ==
  \E i \in Invocations :
    /\ Has(i, "build")
    /\ request[i].detected_at = FmtPostgresNoZone(DateTime(2023, 12, 31, 16, 59, 0))
    /\ detectedAtString[i] = FmtIsoUtc(DateTime(2023, 12, 31, 16, 59, 0))

====
